---- MODULE Spec2Model ----
(***************************************************************************)
(* Registration / login / check-auth service of Omarya-21/backend.         *)
(*                                                                         *)
(* Two revisions of the server are modelled, selected by the variable app: *)
(*   "server"   src/server.js                                              *)
(*   "backend"  src/backend/server.js                                      *)
(* Each request handler is an async function: every `await` is a point     *)
(* where other requests may run, so every handler is cut into one action   *)
(* per await.  Strings are sequences of one-character strings, JSON body   *)
(* fields are tagged values (undefined, string, number, array).            *)
(*                                                                         *)
(* Library contracts assumed (the libraries are not part of the            *)
(* repository): bcryptjs (compare(p, hash(q)) iff p = q, both reject a     *)
(* non-string password), jsonwebtoken (sign throws on an empty secret,     *)
(* verify checks format, then signature, then expiry `now >= exp`),        *)
(* mysql2 / MySQL (UNIQUE index and WHERE `=` compare under the column's   *)
(* collation, strict SQL mode).                                            *)
(***************************************************************************)
EXTENDS Integers, Sequences, FiniteSets, TLC

VARIABLES
    app,         \* which revision of the server is deployed
    JWT_SECRET,  \* process.env.JWT_SECRET ("" when unset)
    users,       \* the users table: sequence of rows, in insertion order
    inUse,       \* connections of the pool currently handed out
    reqs,        \* the in-flight requests, one record per slot
    clock,       \* wall clock, in seconds (NumericDate)
    saved,       \* a token a client kept from a register / login response
    auth         \* the last GET /api/check-auth exchange

vars == <<app, JWT_SECRET, users, inUse, reqs, clock, saved, auth>>

----------------------------------------------------------------------------
(* Bounds of the model *)

\* number of request slots (requests that can be in flight together)
MaxReq == 2
\* the wall clock is not advanced past this many days
MaxDays == 8

Reqs == 1..MaxReq

----------------------------------------------------------------------------
(* Strings *)

Rep(c, n) == [i \in 1..n |-> c]

SetMin(S) == CHOOSE x \in S : \A y \in S : x <= y
SetMax(S) == CHOOSE x \in S : \A y \in S : x >= y

Whitespace == {" ", "\t", "\n"}

UpperCase == <<"A","B","C","D","E","F","G","H","I","J","K","L","M",
               "N","O","P","Q","R","S","T","U","V","W","X","Y","Z">>
LowerCase == <<"a","b","c","d","e","f","g","h","i","j","k","l","m",
               "n","o","p","q","r","s","t","u","v","w","x","y","z">>
Digits == {"0","1","2","3","4","5","6","7","8","9"}

\* the character class [a-zA-Z0-9_]
WordChars ==
    {UpperCase[i] : i \in 1..26} \cup {LowerCase[i] : i \in 1..26}
        \cup Digits \cup {"_"}

\* String.prototype.trim
Trim(s) ==
    LET keep == {i \in 1..Len(s) : s[i] \notin Whitespace}
    IN  IF keep = {} THEN <<>> ELSE SubSeq(s, SetMin(keep), SetMax(keep))

\* /^[a-zA-Z0-9_]+$/.test(s)
MatchesWord(s) == Len(s) >= 1 /\ \A i \in 1..Len(s) : s[i] \in WordChars

----------------------------------------------------------------------------
(* JSON body values as JavaScript sees them *)

Undefined == [t |-> "undefined", v |-> <<>>]
Str(s) == [t |-> "string", v |-> s]
Num(digits) == [t |-> "number", v |-> digits]
Arr(elems) == [t |-> "array", v |-> elems]

\* JavaScript truthiness: undefined, "" and 0 are falsy; arrays are truthy
Truthy(x) ==
    CASE x.t = "undefined" -> FALSE
      [] x.t = "string" -> Len(x.v) > 0
      [] x.t = "number" -> x.v # <<"0">>
      [] OTHER -> TRUE

IsString(x) == x.t = "string"

\* x.length is a number for strings and arrays and undefined otherwise;
\* a comparison with undefined is false
LengthLess(x, n) == x.t \in {"string", "array"} /\ Len(x.v) < n
LengthGreater(x, n) == x.t \in {"string", "array"} /\ Len(x.v) > n

----------------------------------------------------------------------------
(* Program constants *)

UsernameMinLen == 3
UsernameMaxLen == 50
PasswordMinLen == 6
PasswordMaxLen == 100
connectionLimit == 10
BcryptRounds == 12
UsernameColumnLen == 50
ExpiresInDays == 7

SecondsPerDay == 24 * 60 * 60

\* the fallbacks of `process.env.JWT_SECRET || ...` in src/server.js
FallbackSecret == "fallback-secret-key-change-in-production"
DebugFallbackSecret == "fallback-secret-change-this"
\* the value of JWT_SECRET when the deployment sets it
EnvSecret == "secret-from-env"

----------------------------------------------------------------------------
(* Validation helpers of src/server.js *)

Null == "null"
\* calling .trim() on a truthy value that is not a string throws
TypeError == "TypeError: username.trim is not a function"

validateUsername(username) ==
    IF ~Truthy(username) THEN "Username must be at least 3 characters long"
    ELSE IF ~IsString(username) THEN TypeError
    ELSE IF Len(Trim(username.v)) < UsernameMinLen
         THEN "Username must be at least 3 characters long"
    ELSE IF Len(username.v) > UsernameMaxLen
         THEN "Username must be less than 50 characters"
    ELSE IF ~MatchesWord(username.v)
         THEN "Username can only contain letters, numbers, and underscores"
    ELSE Null

validatePasswordNoMax(password) ==
    IF ~Truthy(password) \/ LengthLess(password, PasswordMinLen)
    THEN "Password must be at least 6 characters long"
    ELSE Null

validatePassword(password) ==
    IF ~Truthy(password) \/ LengthLess(password, PasswordMinLen)
    THEN "Password must be at least 6 characters long"
    ELSE IF LengthGreater(password, PasswordMaxLen)
         THEN "Password is too long"
    ELSE Null

(* Validation helpers of src/backend/server.js *)

BackendUsernameMinLen == 3
BackendPasswordMinLen == 6

validateUsernameBackend(username) ==
    IF ~Truthy(username) THEN "Username must be at least 3 characters"
    ELSE IF ~IsString(username) THEN TypeError
    ELSE IF Len(Trim(username.v)) < BackendUsernameMinLen
         THEN "Username must be at least 3 characters"
    ELSE IF ~MatchesWord(username.v)
         THEN "Username can only contain letters, numbers, and underscores"
    ELSE Null

validatePasswordBackend(password) ==
    IF ~Truthy(password) \/ LengthLess(password, BackendPasswordMinLen)
    THEN "Password must be at least 6 characters"
    ELSE Null

----------------------------------------------------------------------------
(* bcryptjs *)

NoHash == [rounds |-> 0, of |-> <<>>]

\* bcrypt.hash(password, rounds): a salted digest, opaque except to compare
bcryptHash(password, rounds) == [rounds |-> rounds, of |-> password.v]

\* bcrypt.compare(password, hash)
bcryptCompare(password, hash) == hash.rounds > 0 /\ hash.of = password.v

\* both reject ("Illegal arguments") when the password is not a string
bcryptRejects(password) == ~IsString(password)

----------------------------------------------------------------------------
(* jsonwebtoken *)

NoToken == [userId |-> 0, username |-> <<>>, iat |-> 0, exp |-> 0,
            key |-> "", wf |-> FALSE]

\* jwt.sign throws "secretOrPrivateKey must have a value" on a falsy secret
jwtSignThrows(secret) == secret = ""

\* a token that lives one day only
jwtSignOneDay(userId, username, secret, now) ==
    [userId |-> userId, username |-> username, iat |-> now,
     exp |-> now + SecondsPerDay, key |-> secret, wf |-> TRUE]

\* jwt.sign({userId, username}, secret, {expiresIn: '7d'}) at time now
jwtSign(userId, username, secret, now) ==
    [userId |-> userId, username |-> username, iat |-> now,
     exp |-> now + ExpiresInDays * SecondsPerDay, key |-> secret, wf |-> TRUE]

\* jwt.verify(token, secret) at time now: "ok" or the name of the error thrown
jwtVerify(token, secret, now) ==
    IF secret = "" THEN "JsonWebTokenError"
    ELSE IF ~token.wf THEN "JsonWebTokenError"
    ELSE IF token.key # secret THEN "JsonWebTokenError"
    ELSE IF now >= token.exp THEN "TokenExpiredError"
    ELSE "ok"

\* process.env.JWT_SECRET || fallback
SecretOr(fallback) == IF JWT_SECRET # "" THEN JWT_SECRET ELSE fallback

----------------------------------------------------------------------------
(* The users table (MySQL) *)

NoRow == [id |-> 0, username |-> <<>>, password |-> NoHash]

ToLower(c) ==
    IF \E i \in 1..26 : UpperCase[i] = c
    THEN LowerCase[CHOOSE i \in 1..26 : UpperCase[i] = c]
    ELSE c

\* trailing spaces do not count in a comparison (PAD SPACE collations)
RTrimSpaces(s) ==
    LET keep == {i \in 1..Len(s) : s[i] # " "}
    IN  IF keep = {} THEN <<>> ELSE SubSeq(s, 1, SetMax(keep))

\* COLLATE utf8mb4_unicode_ci: the key under which `=` and the UNIQUE index
\* compare usernames (case-insensitive)
CollationKey(s) == LET t == RTrimSpaces(s) IN [i \in 1..Len(t) |-> ToLower(t[i])]

\* SELECT ... FROM users WHERE username = ?
SelectByUsername(tbl, name) ==
    SelectSeq(tbl, LAMBDA row : CollationKey(row.username) = CollationKey(name))

\* username VARCHAR(50) UNIQUE: whether the index refuses a new row
UniqueViolationNone(tbl, name) == FALSE

UniqueViolation(tbl, name) == Len(SelectByUsername(tbl, name)) > 0

\* INSERT INTO users (username, password) VALUES (?, ?): the error code, or "none"
InsertError(tbl, name) ==
    IF Len(name) > UsernameColumnLen THEN "ER_DATA_TOO_LONG"
    ELSE IF UniqueViolation(tbl, name) THEN "ER_DUP_ENTRY"
    ELSE "none"

\* id INT AUTO_INCREMENT PRIMARY KEY
NextInsertId(tbl) == Len(tbl) + 1

\* an insert that puts the new row in front of the others
InsertRowFirst(tbl, name, hash) ==
    <<[id |-> NextInsertId(tbl), username |-> name, password |-> hash]>> \o tbl

InsertRow(tbl, name, hash) ==
    Append(tbl, [id |-> NextInsertId(tbl), username |-> name, password |-> hash])

\* error codes of a store that cannot be reached / a query that fails
ConnectError == "ECONNREFUSED"
QueryError == "PROTOCOL_CONNECTION_LOST"

----------------------------------------------------------------------------
(* Requests and responses *)

NoUser == [id |-> 0, username |-> <<>>]
NoResp == [status |-> 0, error |-> "", token |-> NoToken, user |-> NoUser]

\* res.status(status).json({success: false, error})
Failure(status, error) ==
    [status |-> status, error |-> error, token |-> NoToken, user |-> NoUser]

\* res.status(status).json({success: true, token, user: {id, username}})
Success(status, token, id, username) ==
    [status |-> status, error |-> "", token |-> token,
     user |-> [id |-> id, username |-> username]]

\* A request slot.  kind, username, password: the request; pc: the await the
\* handler is suspended at; user, hashedPassword, insertId: the handler's
\* locals; err: the code of the error its catch block received.
\* History fields, read by the properties only: row0 (the row the table held
\* for the username when the request arrived), queries and hashes (store
\* queries and bcrypt calls the request has started).
Idle ==
    [kind |-> "none", username |-> Undefined, password |-> Undefined,
     pc |-> "idle", user |-> NoRow, hashedPassword |-> NoHash, insertId |-> 0,
     err |-> "none", row0 |-> NoRow, queries |-> 0, hashes |-> 0,
     resp |-> NoResp]

FirstOrNoRow(rows) == IF Len(rows) > 0 THEN rows[1] ELSE NoRow

RowAtArrival(username) ==
    IF IsString(username)
    THEN FirstOrNoRow(SelectByUsername(users, Trim(username.v)))
    ELSE NoRow

Arrive(kind, body) ==
    [Idle EXCEPT !.kind = kind, !.username = body.username,
                 !.password = body.password,
                 !.row0 = RowAtArrival(body.username)]

\* the handler answers and returns; a held connection goes back to the pool
Respond(q, resp, code) == [q EXCEPT !.pc = "done", !.resp = resp, !.err = code]

Body(u, p) == [username |-> u, password |-> p]

----------------------------------------------------------------------------
(* src/server.js: POST /api/register *)

DuplicatePrecheckMessage == "Username is already taken. Please choose another."
DuplicateInsertMessage == "Username is already taken."

\* the catch block: every error becomes a 500, also a duplicate key
RegisterCatchAll500(code) ==
    Failure(500, "Registration failed. Please try again.")

\* the catch block of the handler: status and message by error.code
RegisterCatch(code) ==
    IF code = "ER_DUP_ENTRY" THEN Failure(400, DuplicateInsertMessage)
    ELSE IF code = "ER_NO_SUCH_TABLE"
         THEN Failure(500, "Database table not found. Please contact administrator.")
    ELSE IF code = "ER_ACCESS_DENIED_ERROR"
         THEN Failure(500, "Database access denied.")
    ELSE IF code \in {"ECONNREFUSED", "ETIMEDOUT"}
         THEN Failure(500, "Database connection failed. Please try again later.")
    ELSE Failure(500, "Registration failed. Please try again.")

\* validation, up to `await pool.getConnection()`
RegisterStart(r, body) ==
    /\ app = "server"
    /\ reqs[r].pc = "idle"
    /\ LET q == Arrive("register", body)
           usernameError == validateUsername(body.username)
           passwordError == validatePassword(body.password)
       IN  reqs' = [reqs EXCEPT ![r] =
               IF usernameError = TypeError
                   THEN Respond(q, RegisterCatch("TypeError"), "TypeError")
               ELSE IF usernameError # Null
                   THEN Respond(q, Failure(400, usernameError), "none")
               ELSE IF passwordError # Null
                   THEN Respond(q, Failure(400, passwordError), "none")
               ELSE [q EXCEPT !.pc = "getconn"]]
    /\ UNCHANGED <<app, JWT_SECRET, users, inUse, clock, saved, auth>>

\* pool.getConnection() resolves (a connection is free) or rejects; then the
\* pre-check query is sent
RegisterGetConnection(r) ==
    /\ app = "server" /\ reqs[r].kind = "register" /\ reqs[r].pc = "getconn"
    /\ \/ /\ inUse < connectionLimit
          /\ inUse' = inUse + 1
          /\ reqs' = [reqs EXCEPT ![r].pc = "check", ![r].queries = @ + 1]
       \/ /\ inUse < connectionLimit
          /\ reqs' = [reqs EXCEPT ![r] =
                 Respond(@, RegisterCatch(ConnectError), ConnectError)]
          /\ UNCHANGED inUse
    /\ UNCHANGED <<app, JWT_SECRET, users, clock, saved, auth>>

\* the rows the pre-check query of the registration returns
ExistingUsersNone(tbl, name) == <<>>

ExistingUsers(tbl, name) == SelectByUsername(tbl, name)

\* the pre-check query returns (or fails); then bcrypt.hash is called
RegisterCheck(r) ==
    /\ app = "server" /\ reqs[r].kind = "register" /\ reqs[r].pc = "check"
    /\ \/ /\ reqs' = [reqs EXCEPT ![r] =
                 IF Len(ExistingUsers(users, Trim(@.username.v))) > 0
                 THEN Respond(@, Failure(400, DuplicatePrecheckMessage), "none")
                 ELSE [@ EXCEPT !.pc = "hash", !.hashes = @ + 1]]
          /\ inUse' = IF reqs'[r].pc = "done" THEN inUse - 1 ELSE inUse
       \/ /\ reqs' = [reqs EXCEPT ![r] =
                 Respond(@, RegisterCatch(QueryError), QueryError)]
          /\ inUse' = inUse - 1
    /\ UNCHANGED <<app, JWT_SECRET, users, clock, saved, auth>>

\* bcrypt.hash resolves (or rejects); then the INSERT is sent
RegisterHash(r) ==
    /\ app = "server" /\ reqs[r].kind = "register" /\ reqs[r].pc = "hash"
    /\ IF bcryptRejects(reqs[r].password)
       THEN /\ reqs' = [reqs EXCEPT ![r] =
                   Respond(@, RegisterCatch("IllegalArguments"), "IllegalArguments")]
            /\ inUse' = inUse - 1
       ELSE /\ reqs' = [reqs EXCEPT ![r] =
                   [@ EXCEPT !.pc = "insert", !.queries = @ + 1,
                             !.hashedPassword =
                                 bcryptHash(reqs[r].password, BcryptRounds)]]
            /\ UNCHANGED inUse
    /\ UNCHANGED <<app, JWT_SECRET, users, clock, saved, auth>>

\* the INSERT returns (or fails); then the token is signed, the 201 is sent,
\* and `finally` releases the connection
RegisterInsert(r) ==
    /\ app = "server" /\ reqs[r].kind = "register" /\ reqs[r].pc = "insert"
    /\ LET q == reqs[r]
           name == Trim(q.username.v)
           code == InsertError(users, name)
           id == NextInsertId(users)
           secret == SecretOr(FallbackSecret)
       IN  \/ /\ code = "none"
              /\ users' = InsertRow(users, name, q.hashedPassword)
              /\ reqs' = [reqs EXCEPT ![r] =
                     IF jwtSignThrows(secret)
                     THEN Respond([q EXCEPT !.insertId = id],
                                  RegisterCatch("JwtError"), "JwtError")
                     ELSE Respond([q EXCEPT !.insertId = id],
                                  Success(201, jwtSign(id, name, secret, clock), id, name),
                                  "none")]
           \/ /\ code # "none"
              /\ reqs' = [reqs EXCEPT ![r] = Respond(q, RegisterCatch(code), code)]
              /\ UNCHANGED users
           \/ /\ reqs' = [reqs EXCEPT ![r] =
                     Respond(q, RegisterCatch(QueryError), QueryError)]
              /\ UNCHANGED users
    /\ inUse' = inUse - 1
    /\ UNCHANGED <<app, JWT_SECRET, clock, saved, auth>>

----------------------------------------------------------------------------
(* src/server.js: POST /api/login *)

LoginCatch(code) == Failure(500, "Login failed. Please try again.")

\* the answer when the username has no row
LoginUnknownUserNotFound == Failure(404, "User not found")

LoginUnknownUser == Failure(401, "Invalid username or password")

\* the answer when bcrypt.compare says the password does not match
LoginWrongPassword == Failure(401, "Invalid username or password")

\* the presence check, up to `await pool.getConnection()`
LoginStart(r, body) ==
    /\ app = "server"
    /\ reqs[r].pc = "idle"
    /\ LET q == Arrive("login", body)
       IN  reqs' = [reqs EXCEPT ![r] =
               IF ~Truthy(body.username) \/ ~Truthy(body.password)
               THEN Respond(q, Failure(400, "Username and password are required"), "none")
               ELSE [q EXCEPT !.pc = "getconn"]]
    /\ UNCHANGED <<app, JWT_SECRET, users, inUse, clock, saved, auth>>

\* pool.getConnection() resolves or rejects; then username.trim() is evaluated
\* (it throws on a non-string, `finally` releases) and the SELECT is sent
LoginGetConnection(r) ==
    /\ app = "server" /\ reqs[r].kind = "login" /\ reqs[r].pc = "getconn"
    /\ \/ /\ inUse < connectionLimit
          /\ IF IsString(reqs[r].username)
             THEN /\ inUse' = inUse + 1
                  /\ reqs' = [reqs EXCEPT ![r].pc = "find", ![r].queries = @ + 1]
             ELSE /\ UNCHANGED inUse
                  /\ reqs' = [reqs EXCEPT ![r] =
                         Respond(@, LoginCatch("TypeError"), "TypeError")]
       \/ /\ inUse < connectionLimit
          /\ reqs' = [reqs EXCEPT ![r] =
                 Respond(@, LoginCatch(ConnectError), ConnectError)]
          /\ UNCHANGED inUse
    /\ UNCHANGED <<app, JWT_SECRET, users, clock, saved, auth>>

\* the SELECT returns (or fails); then bcrypt.compare is called
LoginFind(r) ==
    /\ app = "server" /\ reqs[r].kind = "login" /\ reqs[r].pc = "find"
    /\ \/ /\ LET rows == SelectByUsername(users, Trim(reqs[r].username.v))
             IN  reqs' = [reqs EXCEPT ![r] =
                     IF Len(rows) = 0
                     THEN Respond(@, LoginUnknownUser, "none")
                     ELSE [@ EXCEPT !.pc = "compare", !.user = rows[1],
                                    !.hashes = @ + 1]]
          /\ inUse' = IF reqs'[r].pc = "done" THEN inUse - 1 ELSE inUse
       \/ /\ reqs' = [reqs EXCEPT ![r] = Respond(@, LoginCatch(QueryError), QueryError)]
          /\ inUse' = inUse - 1
    /\ UNCHANGED <<app, JWT_SECRET, users, clock, saved, auth>>

\* bcrypt.compare resolves (or rejects); then the token is signed, the 200 is
\* sent, and `finally` releases the connection
LoginCompare(r) ==
    /\ app = "server" /\ reqs[r].kind = "login" /\ reqs[r].pc = "compare"
    /\ LET q == reqs[r]
           secret == SecretOr(FallbackSecret)
       IN  reqs' = [reqs EXCEPT ![r] =
               IF bcryptRejects(q.password)
                   THEN Respond(q, LoginCatch("IllegalArguments"), "IllegalArguments")
               ELSE IF ~bcryptCompare(q.password, q.user.password)
                   THEN Respond(q, LoginWrongPassword, "none")
               ELSE IF jwtSignThrows(secret)
                   THEN Respond(q, LoginCatch("JwtError"), "JwtError")
               ELSE Respond(q, Success(200,
                                jwtSign(q.user.id, q.user.username, secret, clock),
                                q.user.id, q.user.username), "none")]
    /\ inUse' = inUse - 1
    /\ UNCHANGED <<app, JWT_SECRET, users, clock, saved, auth>>

----------------------------------------------------------------------------
(* src/server.js: POST /api/debug-register *)

DebugCatch(code) == Failure(500, "Debug registration failed")

\* the presence check, up to `await pool.getConnection()`
DebugRegisterStart(r, body) ==
    /\ app = "server"
    /\ reqs[r].pc = "idle"
    /\ LET q == Arrive("debug", body)
       IN  reqs' = [reqs EXCEPT ![r] =
               IF ~Truthy(body.username) \/ ~Truthy(body.password)
               THEN Respond(q, Failure(400, "Username and password are required"), "none")
               ELSE [q EXCEPT !.pc = "getconn"]]
    /\ UNCHANGED <<app, JWT_SECRET, users, inUse, clock, saved, auth>>

DebugRegisterGetConnection(r) ==
    /\ app = "server" /\ reqs[r].kind = "debug" /\ reqs[r].pc = "getconn"
    /\ \/ /\ inUse < connectionLimit
          /\ inUse' = inUse + 1
          /\ reqs' = [reqs EXCEPT ![r].pc = "check", ![r].queries = @ + 1]
       \/ /\ inUse < connectionLimit
          /\ reqs' = [reqs EXCEPT ![r] =
                 Respond(@, DebugCatch(ConnectError), ConnectError)]
          /\ UNCHANGED inUse
    /\ UNCHANGED <<app, JWT_SECRET, users, clock, saved, auth>>

\* the pre-check query (on the username as sent, not trimmed) returns
DebugRegisterCheck(r) ==
    /\ app = "server" /\ reqs[r].kind = "debug" /\ reqs[r].pc = "check"
    /\ \/ /\ reqs' = [reqs EXCEPT ![r] =
                 IF Len(SelectByUsername(users, @.username.v)) > 0
                 THEN Respond(@, Failure(400, "Username already exists"), "none")
                 ELSE [@ EXCEPT !.pc = "hash", !.hashes = @ + 1]]
          /\ inUse' = IF reqs'[r].pc = "done" THEN inUse - 1 ELSE inUse
       \/ /\ reqs' = [reqs EXCEPT ![r] = Respond(@, DebugCatch(QueryError), QueryError)]
          /\ inUse' = inUse - 1
    /\ UNCHANGED <<app, JWT_SECRET, users, clock, saved, auth>>

DebugRegisterHash(r) ==
    /\ app = "server" /\ reqs[r].kind = "debug" /\ reqs[r].pc = "hash"
    /\ IF bcryptRejects(reqs[r].password)
       THEN /\ reqs' = [reqs EXCEPT ![r] =
                   Respond(@, DebugCatch("IllegalArguments"), "IllegalArguments")]
            /\ inUse' = inUse - 1
       ELSE /\ reqs' = [reqs EXCEPT ![r] =
                   [@ EXCEPT !.pc = "insert", !.queries = @ + 1,
                             !.hashedPassword =
                                 bcryptHash(reqs[r].password, BcryptRounds)]]
            /\ UNCHANGED inUse
    /\ UNCHANGED <<app, JWT_SECRET, users, clock, saved, auth>>

\* the INSERT returns; the token is signed with the debug fallback secret and
\* the answer is sent with res.json (status 200)
DebugRegisterInsert(r) ==
    /\ app = "server" /\ reqs[r].kind = "debug" /\ reqs[r].pc = "insert"
    /\ LET q == reqs[r]
           name == q.username.v
           code == InsertError(users, name)
           id == NextInsertId(users)
           secret == SecretOr(DebugFallbackSecret)
       IN  \/ /\ code = "none"
              /\ users' = InsertRow(users, name, q.hashedPassword)
              /\ reqs' = [reqs EXCEPT ![r] =
                     IF jwtSignThrows(secret)
                     THEN Respond([q EXCEPT !.insertId = id],
                                  DebugCatch("JwtError"), "JwtError")
                     ELSE Respond([q EXCEPT !.insertId = id],
                                  Success(200, jwtSign(id, name, secret, clock), id, name),
                                  "none")]
           \/ /\ code # "none"
              /\ reqs' = [reqs EXCEPT ![r] = Respond(q, DebugCatch(code), code)]
              /\ UNCHANGED users
           \/ /\ reqs' = [reqs EXCEPT ![r] = Respond(q, DebugCatch(QueryError), QueryError)]
              /\ UNCHANGED users
    /\ inUse' = inUse - 1
    /\ UNCHANGED <<app, JWT_SECRET, clock, saved, auth>>

----------------------------------------------------------------------------
(* src/server.js: GET /api/health, GET /api/test-db, GET /api/users *)

\* a query error that leaves the connection open (the statement failed); after
\* QueryError the connection is gone and the pool has dropped it
StatementError == "ER_QUERY_INTERRUPTED"

\* res.json(...) of a handler that sends no token
Plain(status) == Success(status, NoToken, 0, <<>>)

NoBody == Body(Undefined, Undefined)

\* what a failed query on a connection leaves held out of the pool when the
\* handler has no `finally`: connection.release() is skipped by the throw
HeldAfterThrow(code) == IF code = QueryError THEN inUse - 1 ELSE inUse

\* the handler runs up to `await pool.getConnection()`
HealthStart(r) ==
    /\ app = "server"
    /\ reqs[r].pc = "idle"
    /\ reqs' = [reqs EXCEPT ![r] = [Arrive("health", NoBody) EXCEPT !.pc = "getconn"]]
    /\ UNCHANGED <<app, JWT_SECRET, users, inUse, clock, saved, auth>>

HealthGetConnection(r) ==
    /\ app = "server" /\ reqs[r].kind = "health" /\ reqs[r].pc = "getconn"
    /\ inUse < connectionLimit
    /\ \/ /\ inUse' = inUse + 1
          /\ reqs' = [reqs EXCEPT ![r].pc = "query", ![r].queries = @ + 1]
       \/ /\ reqs' = [reqs EXCEPT ![r] =
                 Respond(@, Failure(500, "unhealthy"), ConnectError)]
          /\ UNCHANGED inUse
    /\ UNCHANGED <<app, JWT_SECRET, users, clock, saved, auth>>

\* SELECT 1 returns: release, then res.json; or it throws and the catch block
\* answers 500
HealthQuery(r) ==
    /\ app = "server" /\ reqs[r].kind = "health" /\ reqs[r].pc = "query"
    /\ \/ /\ reqs' = [reqs EXCEPT ![r] = Respond(@, Plain(200), "none")]
          /\ inUse' = inUse - 1
       \/ \E code \in {QueryError, StatementError} :
              /\ reqs' = [reqs EXCEPT ![r] =
                     Respond(@, Failure(500, "unhealthy"), code)]
              /\ inUse' = HeldAfterThrow(code)
    /\ UNCHANGED <<app, JWT_SECRET, users, clock, saved, auth>>

TestDbStart(r) ==
    /\ app = "server"
    /\ reqs[r].pc = "idle"
    /\ reqs' = [reqs EXCEPT ![r] = [Arrive("test-db", NoBody) EXCEPT !.pc = "getconn"]]
    /\ UNCHANGED <<app, JWT_SECRET, users, inUse, clock, saved, auth>>

TestDbGetConnection(r) ==
    /\ app = "server" /\ reqs[r].kind = "test-db" /\ reqs[r].pc = "getconn"
    /\ inUse < connectionLimit
    /\ \/ /\ inUse' = inUse + 1
          /\ reqs' = [reqs EXCEPT ![r].pc = "dbInfo", ![r].queries = @ + 1]
       \/ /\ reqs' = [reqs EXCEPT ![r] =
                 Respond(@, Failure(500, ConnectError), ConnectError)]
          /\ UNCHANGED inUse
    /\ UNCHANGED <<app, JWT_SECRET, users, clock, saved, auth>>

\* one of the first two queries (dbInfo, tables) returns and the next is sent,
\* or it throws
TestDbQuery(r) ==
    /\ app = "server" /\ reqs[r].kind = "test-db"
    /\ reqs[r].pc \in {"dbInfo", "tables"}
    /\ \/ /\ reqs' = [reqs EXCEPT ![r].queries = @ + 1,
                                  ![r].pc = IF @ = "dbInfo" THEN "tables"
                                            ELSE "userCount"]
          /\ UNCHANGED inUse
       \/ \E code \in {QueryError, StatementError} :
              /\ reqs' = [reqs EXCEPT ![r] = Respond(@, Failure(500, code), code)]
              /\ inUse' = HeldAfterThrow(code)
    /\ UNCHANGED <<app, JWT_SECRET, users, clock, saved, auth>>

\* SELECT COUNT(*) FROM users returns: release, then res.json; or it throws
TestDbCount(r) ==
    /\ app = "server" /\ reqs[r].kind = "test-db" /\ reqs[r].pc = "userCount"
    /\ \/ /\ reqs' = [reqs EXCEPT ![r] = Respond(@, Plain(200), "none")]
          /\ inUse' = inUse - 1
       \/ \E code \in {QueryError, StatementError} :
              /\ reqs' = [reqs EXCEPT ![r] = Respond(@, Failure(500, code), code)]
              /\ inUse' = HeldAfterThrow(code)
    /\ UNCHANGED <<app, JWT_SECRET, users, clock, saved, auth>>

UsersStart(r) ==
    /\ app = "server"
    /\ reqs[r].pc = "idle"
    /\ reqs' = [reqs EXCEPT ![r] = [Arrive("users", NoBody) EXCEPT !.pc = "getconn"]]
    /\ UNCHANGED <<app, JWT_SECRET, users, inUse, clock, saved, auth>>

UsersGetConnection(r) ==
    /\ app = "server" /\ reqs[r].kind = "users" /\ reqs[r].pc = "getconn"
    /\ inUse < connectionLimit
    /\ \/ /\ inUse' = inUse + 1
          /\ reqs' = [reqs EXCEPT ![r].pc = "query", ![r].queries = @ + 1]
       \/ /\ reqs' = [reqs EXCEPT ![r] =
                 Respond(@, Failure(500, "Failed to fetch users"), ConnectError)]
          /\ UNCHANGED inUse
    /\ UNCHANGED <<app, JWT_SECRET, users, clock, saved, auth>>

\* SELECT id, username, created_at FROM users returns: release, then res.json;
\* or it throws
UsersQuery(r) ==
    /\ app = "server" /\ reqs[r].kind = "users" /\ reqs[r].pc = "query"
    /\ \/ /\ reqs' = [reqs EXCEPT ![r] = Respond(@, Plain(200), "none")]
          /\ inUse' = inUse - 1
       \/ \E code \in {QueryError, StatementError} :
              /\ reqs' = [reqs EXCEPT ![r] =
                     Respond(@, Failure(500, "Failed to fetch users"), code)]
              /\ inUse' = HeldAfterThrow(code)
    /\ UNCHANGED <<app, JWT_SECRET, users, clock, saved, auth>>

----------------------------------------------------------------------------
(* src/backend/server.js: POST /api/register *)

\* the catch block: every error is a 500
BackendRegisterCatch(code) == Failure(500, "Registration failed")

BackendRegisterStart(r, body) ==
    /\ app = "backend"
    /\ reqs[r].pc = "idle"
    /\ LET q == Arrive("register", body)
           usernameError == validateUsernameBackend(body.username)
           passwordError == validatePasswordBackend(body.password)
       IN  reqs' = [reqs EXCEPT ![r] =
               IF usernameError = TypeError
                   THEN Respond(q, BackendRegisterCatch("TypeError"), "TypeError")
               ELSE IF usernameError # Null
                   THEN Respond(q, Failure(400, usernameError), "none")
               ELSE IF passwordError # Null
                   THEN Respond(q, Failure(400, passwordError), "none")
               ELSE [q EXCEPT !.pc = "getconn"]]
    /\ UNCHANGED <<app, JWT_SECRET, users, inUse, clock, saved, auth>>

BackendRegisterGetConnection(r) ==
    /\ app = "backend" /\ reqs[r].kind = "register" /\ reqs[r].pc = "getconn"
    /\ \/ /\ inUse < connectionLimit
          /\ inUse' = inUse + 1
          /\ reqs' = [reqs EXCEPT ![r].pc = "check", ![r].queries = @ + 1]
       \/ /\ inUse < connectionLimit
          /\ reqs' = [reqs EXCEPT ![r] =
                 Respond(@, BackendRegisterCatch(ConnectError), ConnectError)]
          /\ UNCHANGED inUse
    /\ UNCHANGED <<app, JWT_SECRET, users, clock, saved, auth>>

BackendRegisterCheck(r) ==
    /\ app = "backend" /\ reqs[r].kind = "register" /\ reqs[r].pc = "check"
    /\ \/ /\ reqs' = [reqs EXCEPT ![r] =
                 IF Len(SelectByUsername(users, Trim(@.username.v))) > 0
                 THEN Respond(@, Failure(400, "Username already taken"), "none")
                 ELSE [@ EXCEPT !.pc = "hash", !.hashes = @ + 1]]
          /\ inUse' = IF reqs'[r].pc = "done" THEN inUse - 1 ELSE inUse
       \/ /\ reqs' = [reqs EXCEPT ![r] =
                 Respond(@, BackendRegisterCatch(QueryError), QueryError)]
          /\ inUse' = inUse - 1
    /\ UNCHANGED <<app, JWT_SECRET, users, clock, saved, auth>>

BackendRegisterHash(r) ==
    /\ app = "backend" /\ reqs[r].kind = "register" /\ reqs[r].pc = "hash"
    /\ IF bcryptRejects(reqs[r].password)
       THEN /\ reqs' = [reqs EXCEPT ![r] =
                   Respond(@, BackendRegisterCatch("IllegalArguments"),
                           "IllegalArguments")]
            /\ inUse' = inUse - 1
       ELSE /\ reqs' = [reqs EXCEPT ![r] =
                   [@ EXCEPT !.pc = "insert", !.queries = @ + 1,
                             !.hashedPassword =
                                 bcryptHash(reqs[r].password, BcryptRounds)]]
            /\ UNCHANGED inUse
    /\ UNCHANGED <<app, JWT_SECRET, users, clock, saved, auth>>

\* the INSERT returns; then jwt.sign(..., process.env.JWT_SECRET, ...) runs,
\* which throws when the secret is unset; the catch block answers 500
BackendRegisterInsert(r) ==
    /\ app = "backend" /\ reqs[r].kind = "register" /\ reqs[r].pc = "insert"
    /\ LET q == reqs[r]
           name == Trim(q.username.v)
           code == InsertError(users, name)
           id == NextInsertId(users)
       IN  \/ /\ code = "none"
              /\ users' = InsertRow(users, name, q.hashedPassword)
              /\ reqs' = [reqs EXCEPT ![r] =
                     IF jwtSignThrows(JWT_SECRET)
                     THEN Respond([q EXCEPT !.insertId = id],
                                  BackendRegisterCatch("JwtError"), "JwtError")
                     ELSE Respond([q EXCEPT !.insertId = id],
                                  Success(201, jwtSign(id, name, JWT_SECRET, clock),
                                          id, name),
                                  "none")]
           \/ /\ code # "none"
              /\ reqs' = [reqs EXCEPT ![r] =
                     Respond(q, BackendRegisterCatch(code), code)]
              /\ UNCHANGED users
           \/ /\ reqs' = [reqs EXCEPT ![r] =
                     Respond(q, BackendRegisterCatch(QueryError), QueryError)]
              /\ UNCHANGED users
    /\ inUse' = inUse - 1
    /\ UNCHANGED <<app, JWT_SECRET, clock, saved, auth>>

----------------------------------------------------------------------------
(* src/backend/server.js: POST /api/login *)

BackendLoginCatch(code) == Failure(500, "Login failed")

BackendLoginUnknownUser == Failure(401, "Invalid credentials")

BackendLoginWrongPassword == Failure(401, "Invalid credentials")

BackendLoginStart(r, body) ==
    /\ app = "backend"
    /\ reqs[r].pc = "idle"
    /\ LET q == Arrive("login", body)
       IN  reqs' = [reqs EXCEPT ![r] =
               IF ~Truthy(body.username) \/ ~Truthy(body.password)
               THEN Respond(q, Failure(400, "Username and password required"), "none")
               ELSE [q EXCEPT !.pc = "getconn"]]
    /\ UNCHANGED <<app, JWT_SECRET, users, inUse, clock, saved, auth>>

BackendLoginGetConnection(r) ==
    /\ app = "backend" /\ reqs[r].kind = "login" /\ reqs[r].pc = "getconn"
    /\ \/ /\ inUse < connectionLimit
          /\ IF IsString(reqs[r].username)
             THEN /\ inUse' = inUse + 1
                  /\ reqs' = [reqs EXCEPT ![r].pc = "find", ![r].queries = @ + 1]
             ELSE /\ UNCHANGED inUse
                  /\ reqs' = [reqs EXCEPT ![r] =
                         Respond(@, BackendLoginCatch("TypeError"), "TypeError")]
       \/ /\ inUse < connectionLimit
          /\ reqs' = [reqs EXCEPT ![r] =
                 Respond(@, BackendLoginCatch(ConnectError), ConnectError)]
          /\ UNCHANGED inUse
    /\ UNCHANGED <<app, JWT_SECRET, users, clock, saved, auth>>

BackendLoginFind(r) ==
    /\ app = "backend" /\ reqs[r].kind = "login" /\ reqs[r].pc = "find"
    /\ \/ /\ LET rows == SelectByUsername(users, Trim(reqs[r].username.v))
             IN  reqs' = [reqs EXCEPT ![r] =
                     IF Len(rows) = 0
                     THEN Respond(@, BackendLoginUnknownUser, "none")
                     ELSE [@ EXCEPT !.pc = "compare", !.user = rows[1],
                                    !.hashes = @ + 1]]
          /\ inUse' = IF reqs'[r].pc = "done" THEN inUse - 1 ELSE inUse
       \/ /\ reqs' = [reqs EXCEPT ![r] =
                 Respond(@, BackendLoginCatch(QueryError), QueryError)]
          /\ inUse' = inUse - 1
    /\ UNCHANGED <<app, JWT_SECRET, users, clock, saved, auth>>

BackendLoginCompare(r) ==
    /\ app = "backend" /\ reqs[r].kind = "login" /\ reqs[r].pc = "compare"
    /\ LET q == reqs[r]
       IN  reqs' = [reqs EXCEPT ![r] =
               IF bcryptRejects(q.password)
                   THEN Respond(q, BackendLoginCatch("IllegalArguments"),
                                "IllegalArguments")
               ELSE IF ~bcryptCompare(q.password, q.user.password)
                   THEN Respond(q, BackendLoginWrongPassword, "none")
               ELSE IF jwtSignThrows(JWT_SECRET)
                   THEN Respond(q, BackendLoginCatch("JwtError"), "JwtError")
               ELSE Respond(q, Success(200,
                                jwtSign(q.user.id, q.user.username, JWT_SECRET, clock),
                                q.user.id, q.user.username), "none")]
    /\ inUse' = inUse - 1
    /\ UNCHANGED <<app, JWT_SECRET, users, clock, saved, auth>>

----------------------------------------------------------------------------
(* src/unnamed/part_001: POST /api/register, POST /api/login *)

Part001BcryptRounds == 10
Part001RegisterDays == 7
Part001LoginDays == 1

\* jwt.sign(payload, secret, {expiresIn: days}) at time now; payload is the
\* object passed, claim names and values as written in the call
jwtSignPayload(payload, secret, now, days) ==
    [payload |-> payload, iat |-> now, exp |-> now + days * SecondsPerDay,
     key |-> secret, wf |-> TRUE]

\* { userId: result.insertId, username }, expiresIn '7d'
Part001RegisterToken(id, username, now) ==
    jwtSignPayload([userId |-> id, username |-> username], JWT_SECRET, now,
                   Part001RegisterDays)

\* { id: user.id, username: user.username }, expiresIn '1d'
Part001LoginToken(user, now) ==
    jwtSignPayload([id |-> user.id, username |-> user.username], JWT_SECRET, now,
                   Part001LoginDays)

\* pool.query('... WHERE username = ?', [username]): undefined is sent as
\* NULL, which no username equals
Part001Select(tbl, username) ==
    IF IsString(username) THEN SelectByUsername(tbl, username.v) ELSE <<>>

\* the presence check, then the pre-check query is sent (pool.query takes a
\* connection and gives it back itself); the usernames followed are strings
\* or absent
Part001RegisterStart(r, body) ==
    /\ app = "part_001"
    /\ reqs[r].pc = "idle"
    /\ IsString(body.username) \/ ~Truthy(body.username)
    /\ LET q == Arrive("register", body)
       IN  reqs' = [reqs EXCEPT ![r] =
               IF ~Truthy(body.username) \/ ~Truthy(body.password)
               THEN Respond(q, Failure(400, "Username and password required"), "none")
               ELSE [q EXCEPT !.pc = "check", !.queries = @ + 1]]
    /\ UNCHANGED <<app, JWT_SECRET, users, inUse, clock, saved, auth>>

Part001RegisterCheck(r) ==
    /\ app = "part_001" /\ reqs[r].kind = "register" /\ reqs[r].pc = "check"
    /\ \/ reqs' = [reqs EXCEPT ![r] =
              IF Len(Part001Select(users, @.username)) > 0
              THEN Respond(@, Failure(400, "Username already exists"), "none")
              ELSE [@ EXCEPT !.pc = "hash", !.hashes = @ + 1]]
       \/ reqs' = [reqs EXCEPT ![r] =
              Respond(@, Failure(500, "Registration failed"), QueryError)]
    /\ UNCHANGED <<app, JWT_SECRET, users, inUse, clock, saved, auth>>

Part001RegisterHash(r) ==
    /\ app = "part_001" /\ reqs[r].kind = "register" /\ reqs[r].pc = "hash"
    /\ reqs' = [reqs EXCEPT ![r] =
           IF bcryptRejects(reqs[r].password)
           THEN Respond(@, Failure(500, "Registration failed"), "IllegalArguments")
           ELSE [@ EXCEPT !.pc = "insert", !.queries = @ + 1,
                          !.hashedPassword =
                              bcryptHash(reqs[r].password, Part001BcryptRounds)]]
    /\ UNCHANGED <<app, JWT_SECRET, users, inUse, clock, saved, auth>>

\* the INSERT returns (or fails); then the token is signed and the 201 sent
Part001RegisterInsert(r) ==
    /\ app = "part_001" /\ reqs[r].kind = "register" /\ reqs[r].pc = "insert"
    /\ LET q == reqs[r]
           name == q.username.v
           code == InsertError(users, name)
           id == NextInsertId(users)
       IN  \/ /\ code = "none"
              /\ users' = InsertRow(users, name, q.hashedPassword)
              /\ reqs' = [reqs EXCEPT ![r] =
                     IF jwtSignThrows(JWT_SECRET)
                     THEN Respond([q EXCEPT !.insertId = id],
                                  Failure(500, "Registration failed"), "JwtError")
                     ELSE Respond([q EXCEPT !.insertId = id],
                                  Success(201, Part001RegisterToken(id, name, clock),
                                          id, name),
                                  "none")]
           \/ /\ code # "none"
              /\ reqs' = [reqs EXCEPT ![r] =
                     Respond(q, Failure(500, "Registration failed"), code)]
              /\ UNCHANGED users
           \/ /\ reqs' = [reqs EXCEPT ![r] =
                     Respond(q, Failure(500, "Registration failed"), QueryError)]
              /\ UNCHANGED users
    /\ UNCHANGED <<app, JWT_SECRET, inUse, clock, saved, auth>>

\* no presence check: the SELECT is sent with the username as it came
Part001LoginStart(r, body) ==
    /\ app = "part_001"
    /\ reqs[r].pc = "idle"
    /\ IsString(body.username) \/ ~Truthy(body.username)
    /\ reqs' = [reqs EXCEPT ![r] =
           [Arrive("login", body) EXCEPT !.pc = "find", !.queries = @ + 1]]
    /\ UNCHANGED <<app, JWT_SECRET, users, inUse, clock, saved, auth>>

Part001LoginFind(r) ==
    /\ app = "part_001" /\ reqs[r].kind = "login" /\ reqs[r].pc = "find"
    /\ \/ LET rows == Part001Select(users, reqs[r].username)
          IN  reqs' = [reqs EXCEPT ![r] =
                  IF Len(rows) = 0
                  THEN Respond(@, Failure(400, "Invalid credentials"), "none")
                  ELSE [@ EXCEPT !.pc = "compare", !.user = rows[1],
                                 !.hashes = @ + 1]]
       \/ reqs' = [reqs EXCEPT ![r] =
              Respond(@, Failure(500, "Server error"), QueryError)]
    /\ UNCHANGED <<app, JWT_SECRET, users, inUse, clock, saved, auth>>

\* bcrypt.compare resolves (or rejects); then the token is signed and sent
Part001LoginCompare(r) ==
    /\ app = "part_001" /\ reqs[r].kind = "login" /\ reqs[r].pc = "compare"
    /\ LET q == reqs[r]
       IN  reqs' = [reqs EXCEPT ![r] =
               IF bcryptRejects(q.password)
                   THEN Respond(q, Failure(500, "Server error"), "IllegalArguments")
               ELSE IF ~bcryptCompare(q.password, q.user.password)
                   THEN Respond(q, Failure(400, "Invalid credentials"), "none")
               ELSE IF jwtSignThrows(JWT_SECRET)
                   THEN Respond(q, Failure(500, "Server error"), "JwtError")
               ELSE Respond(q, Success(200, Part001LoginToken(q.user, clock),
                                       q.user.id, q.user.username),
                            "none")]
    /\ UNCHANGED <<app, JWT_SECRET, users, inUse, clock, saved, auth>>

----------------------------------------------------------------------------
(* src/server.js: GET /api/check-auth *)

\* An Authorization header: absent, or the text before the first space
\* (scheme) and the pieces that follow, each after one space (parts), so that
\* authHeader.split(' ')[1] is parts[1].  A piece is a token: one that
\* jwt.sign made, or text that is no token (wf = FALSE).
NoHeader == [present |-> FALSE, scheme |-> "", parts |-> <<>>]
Header(scheme, parts) == [present |-> TRUE, scheme |-> scheme, parts |-> parts]

\* !authHeader
HeaderMissing(h) == ~h.present \/ (h.scheme = "" /\ h.parts = <<>>)

\* authHeader.startsWith('Bearer ')
StartsWithBearer(h) == h.scheme = "Bearer" /\ Len(h.parts) >= 1

AuthReply(status, isLoggedIn, message, user) ==
    [status |-> status, isLoggedIn |-> isLoggedIn, message |-> message,
     user |-> user]

\* a catch block that reports the failure as an error status
CheckAuthCatch401(name) == AuthReply(401, FALSE, "Invalid or expired token", NoUser)

\* the catch block: res.json in both branches
CheckAuthCatch(name) ==
    IF name \in {"JsonWebTokenError", "TokenExpiredError"}
    THEN AuthReply(200, FALSE, "Invalid or expired token", NoUser)
    ELSE AuthReply(200, FALSE, "Authentication check failed", NoUser)

\* the handler is synchronous: one step from request to response
CheckAuthReply(h, now) ==
    IF HeaderMissing(h) \/ ~StartsWithBearer(h)
    THEN AuthReply(200, FALSE, "No token provided", NoUser)
    ELSE LET token == h.parts[1]
             verdict == jwtVerify(token, SecretOr(FallbackSecret), now)
         IN  IF verdict = "ok"
             THEN AuthReply(200, TRUE, "",
                            [id |-> token.userId, username |-> token.username])
             ELSE CheckAuthCatch(verdict)

NoAuth ==
    [asked |-> FALSE, header |-> NoHeader, at |-> 0,
     reply |-> AuthReply(0, FALSE, "", NoUser)]

CheckAuth(h) ==
    /\ app = "server"
    /\ auth' = [asked |-> TRUE, header |-> h, at |-> clock,
                reply |-> CheckAuthReply(h, clock)]
    /\ UNCHANGED <<app, JWT_SECRET, users, inUse, reqs, clock, saved>>

----------------------------------------------------------------------------
(* The client side of an exchange *)

\* the response has been delivered; the slot is free for the next request
Retire(r) ==
    /\ reqs[r].pc = "done"
    /\ reqs' = [reqs EXCEPT ![r] = Idle]
    /\ UNCHANGED <<app, JWT_SECRET, users, inUse, clock, saved, auth>>

NoSaved == [token |-> NoToken, user |-> NoUser, by |-> "none"]

\* the client keeps the token and the user of a success response
KeepToken(r) ==
    /\ reqs[r].pc = "done"
    /\ reqs[r].resp.token.wf
    /\ saved' = [token |-> reqs[r].resp.token, user |-> reqs[r].resp.user,
                 by |-> reqs[r].kind]
    /\ UNCHANGED <<app, JWT_SECRET, users, inUse, reqs, clock, auth>>

\* text that is not a token, and the kept token re-signed with another key
GarbageToken == [NoToken EXCEPT !.key = "garbage"]
Forged(token) == [token EXCEPT !.key = "attacker-key"]

\* the Authorization headers a client sends
AuthHeaders ==
    { NoHeader,
      Header("Bearer", <<>>),
      Header("Bearer", <<NoToken>>),
      Header("Bearer", <<GarbageToken>>),
      Header("Basic", <<saved.token>>),
      Header("Bearer", <<saved.token>>),
      Header("Bearer", <<Forged(saved.token)>>) }

\* the instants the clock is observed at, around the end of a token's life
ClockPoints ==
    { 0, ExpiresInDays * SecondsPerDay - 1, ExpiresInDays * SecondsPerDay,
      MaxDays * SecondsPerDay }

\* time passes
Tick ==
    /\ \E t \in ClockPoints : t > clock /\ clock' = t
    /\ UNCHANGED <<app, JWT_SECRET, users, inUse, reqs, saved, auth>>

----------------------------------------------------------------------------
(* Request bodies the clients send *)

bob == <<"b","o","b">>
Bob == <<"B","o","b">>
ab == <<"a","b">>
secret1 == <<"s","e","c","r","e","t","1">>
other12 == <<"o","t","h","e","r","1","2">>
short == <<"s","h","o","r","t">>
n123456 == <<"1","2","3","4","5","6">>

RegisterBodies ==
    { Body(Str(bob), Str(secret1)), Body(Str(bob), Str(other12)),
      Body(Str(Bob), Str(secret1)),
      Body(Str(ab), Str(secret1)), Body(Str(bob), Str(short)),
      Body(Undefined, Str(secret1)), Body(Str(bob), Undefined),
      Body(Num(n123456), Str(secret1)), Body(Str(bob), Num(n123456)),
      Body(Arr(bob), Str(secret1)) }

LoginBodies ==
    { Body(Str(bob), Str(secret1)), Body(Str(bob), Str(other12)),
      Body(Undefined, Str(secret1)), Body(Str(bob), Undefined),
      Body(Num(n123456), Str(secret1)), Body(Str(bob), Num(n123456)) }

DebugBodies ==
    { Body(Str(bob), Str(secret1)), Body(Str(ab), Str(secret1)),
      Body(Undefined, Str(secret1)) }

----------------------------------------------------------------------------
(* Specifications *)

Init ==
    /\ app \in {"server", "backend"}
    /\ JWT_SECRET \in {"", EnvSecret}
    /\ users = <<>>
    /\ inUse = 0
    /\ reqs = [r \in Reqs |-> Idle]
    /\ clock = 0
    /\ saved = NoSaved
    /\ auth = NoAuth

\* src/server.js under concurrent requests
NextServer ==
    \E r \in Reqs :
        \/ \E body \in RegisterBodies : RegisterStart(r, body)
        \/ RegisterGetConnection(r)
        \/ RegisterCheck(r)
        \/ RegisterHash(r)
        \/ RegisterInsert(r)
        \/ \E body \in LoginBodies : LoginStart(r, body)
        \/ LoginGetConnection(r)
        \/ LoginFind(r)
        \/ LoginCompare(r)
        \/ \E body \in DebugBodies : DebugRegisterStart(r, body)
        \/ DebugRegisterGetConnection(r)
        \/ DebugRegisterCheck(r)
        \/ DebugRegisterHash(r)
        \/ DebugRegisterInsert(r)
        \/ Retire(r)

InitServer == Init /\ app = "server"

SpecServer == InitServer /\ [][NextServer]_vars

\* src/server.js: accounts, tokens and the passing of time
SessionBodies == { Body(Str(bob), Str(secret1)) }

\* no other request is in flight
Alone(r) == \A o \in Reqs \ {r} : reqs[o].pc = "idle"

NextSession ==
    \/ \E r \in Reqs :
        \/ \E body \in SessionBodies : Alone(r) /\ RegisterStart(r, body)
        \/ RegisterGetConnection(r)
        \/ RegisterCheck(r)
        \/ RegisterHash(r)
        \/ RegisterInsert(r)
        \/ \E body \in SessionBodies : Alone(r) /\ LoginStart(r, body)
        \/ LoginGetConnection(r)
        \/ LoginFind(r)
        \/ LoginCompare(r)
        \/ KeepToken(r)
        \/ Retire(r)
    \/ \E h \in AuthHeaders : CheckAuth(h)
    \/ Tick

SpecSession == InitServer /\ [][NextSession]_vars

\* both revisions: accounts are registered and logged into
AccountBodies == { Body(Str(bob), Str(secret1)) }
CredentialBodies ==
    { Body(Str(bob), Str(secret1)), Body(Str(bob), Str(other12)) }

NextLogin ==
    \E r \in Reqs :
        \/ \E body \in AccountBodies : RegisterStart(r, body)
        \/ RegisterGetConnection(r)
        \/ RegisterCheck(r)
        \/ RegisterHash(r)
        \/ RegisterInsert(r)
        \/ \E body \in CredentialBodies : LoginStart(r, body)
        \/ LoginGetConnection(r)
        \/ LoginFind(r)
        \/ LoginCompare(r)
        \/ \E body \in AccountBodies : BackendRegisterStart(r, body)
        \/ BackendRegisterGetConnection(r)
        \/ BackendRegisterCheck(r)
        \/ BackendRegisterHash(r)
        \/ BackendRegisterInsert(r)
        \/ \E body \in CredentialBodies : BackendLoginStart(r, body)
        \/ BackendLoginGetConnection(r)
        \/ BackendLoginFind(r)
        \/ BackendLoginCompare(r)
        \/ Retire(r)

SpecLogin == Init /\ [][NextLogin]_vars

\* src/backend/server.js under concurrent requests
BackendRegisterBodies ==
    { Body(Str(bob), Str(secret1)), Body(Str(Bob), Str(other12)),
      Body(Str(ab), Str(secret1)), Body(Str(bob), Num(n123456)) }

NextBackend ==
    \E r \in Reqs :
        \/ \E body \in BackendRegisterBodies : BackendRegisterStart(r, body)
        \/ BackendRegisterGetConnection(r)
        \/ BackendRegisterCheck(r)
        \/ BackendRegisterHash(r)
        \/ BackendRegisterInsert(r)
        \/ \E body \in CredentialBodies : BackendLoginStart(r, body)
        \/ BackendLoginGetConnection(r)
        \/ BackendLoginFind(r)
        \/ BackendLoginCompare(r)
        \/ Retire(r)

InitBackend == Init /\ app = "backend"

SpecBackend == InitBackend /\ [][NextBackend]_vars

\* src/server.js: the validation of POST /api/register over string inputs
a50 == Rep("a", 50)
a51 == Rep("a", 51)
p100 == Rep("p", 100)
p101 == Rep("p", 101)

ValidationUsernames ==
    { <<>>, ab, <<"a","b","c">>, bob, <<"_","b","9">>, a50, a51,
      <<"a"," ","b">>, <<" ","a","b"," ">>, <<"b","o","-","b">>,
      <<" ","b","o","b">>, <<"b","o","b","\n">> }

ValidationPasswords ==
    { <<>>, short, <<"s","e","c","r","e","t">>, secret1, p100, p101 }

ValidationBodies ==
    { Body(Str(u), Str(p)) : u \in ValidationUsernames, p \in ValidationPasswords }

NextValidation ==
    \E r \in Reqs :
        \/ \E body \in ValidationBodies : Alone(r) /\ RegisterStart(r, body)
        \/ Retire(r)

SpecValidation == InitServer /\ [][NextValidation]_vars

\* src/server.js: the two endpoints that create rows, racing
CreateBodies ==
    { Body(Str(bob), Str(secret1)), Body(Str(bob), Str(other12)),
      Body(Str(Bob), Str(secret1)) }
DebugCreateBodies == { Body(Str(bob), Str(secret1)) }

NextRegister ==
    \E r \in Reqs :
        \/ \E body \in CreateBodies : RegisterStart(r, body)
        \/ RegisterGetConnection(r)
        \/ RegisterCheck(r)
        \/ RegisterHash(r)
        \/ RegisterInsert(r)
        \/ \E body \in DebugCreateBodies : DebugRegisterStart(r, body)
        \/ DebugRegisterGetConnection(r)
        \/ DebugRegisterCheck(r)
        \/ DebugRegisterHash(r)
        \/ DebugRegisterInsert(r)
        \/ Retire(r)

SpecRegister == InitServer /\ [][NextRegister]_vars

\* src/server.js: every endpoint that takes a connection from the pool
PoolBodies == { Body(Str(bob), Str(secret1)) }

\* the request in slot r gets its connection from the pool
PoolAcquire(r) ==
    \/ RegisterGetConnection(r)
    \/ LoginGetConnection(r)
    \/ DebugRegisterGetConnection(r)
    \/ HealthGetConnection(r)
    \/ TestDbGetConnection(r)
    \/ UsersGetConnection(r)

\* the query or the hash the request in slot r awaits completes or errors
PoolSettle(r) ==
    \/ RegisterCheck(r)
    \/ RegisterHash(r)
    \/ RegisterInsert(r)
    \/ LoginFind(r)
    \/ LoginCompare(r)
    \/ DebugRegisterCheck(r)
    \/ DebugRegisterHash(r)
    \/ DebugRegisterInsert(r)
    \/ HealthQuery(r)
    \/ TestDbQuery(r)
    \/ TestDbCount(r)
    \/ UsersQuery(r)

NextPool ==
    \E r \in Reqs :
        \/ \E body \in PoolBodies : RegisterStart(r, body)
        \/ \E body \in PoolBodies : LoginStart(r, body)
        \/ \E body \in PoolBodies : DebugRegisterStart(r, body)
        \/ HealthStart(r)
        \/ TestDbStart(r)
        \/ UsersStart(r)
        \/ PoolAcquire(r)
        \/ PoolSettle(r)
        \/ Retire(r)

SpecPool == InitServer /\ [][NextPool]_vars

\* every await of a handler settles: a query or a hash completes or errors
\* (weak fairness), and the pool hands a freed connection to a waiting
\* getConnection in arrival order, so a waiter is not overtaken for ever
\* (strong fairness on the acquisition)
PoolFairness ==
    \A r \in Reqs : SF_vars(PoolAcquire(r)) /\ WF_vars(PoolSettle(r))

SpecPoolLive == InitServer /\ [][NextPool]_vars /\ PoolFairness

\* src/server.js: every endpoint in scope next to the two that create rows
alice == <<"a","l","i","c","e">>

FrameBodies == { Body(Str(bob), Str(secret1)), Body(Str(ab), Str(secret1)) }
FrameDebugBodies == { Body(Str(alice), Str(secret1)) }

\* no header, text that is no token, and a token of the first account
FrameHeaders ==
    { NoHeader,
      Header("Bearer", <<GarbageToken>>),
      Header("Bearer", <<jwtSign(1, bob, SecretOr(FallbackSecret), 0)>>) }

NextFrame ==
    \/ \E r \in Reqs :
        \/ \E body \in FrameBodies : RegisterStart(r, body)
        \/ RegisterGetConnection(r)
        \/ RegisterCheck(r)
        \/ RegisterHash(r)
        \/ RegisterInsert(r)
        \/ \E body \in CredentialBodies : Alone(r) /\ LoginStart(r, body)
        \/ LoginGetConnection(r)
        \/ LoginFind(r)
        \/ LoginCompare(r)
        \/ \E body \in FrameDebugBodies : Alone(r) /\ DebugRegisterStart(r, body)
        \/ DebugRegisterGetConnection(r)
        \/ DebugRegisterCheck(r)
        \/ DebugRegisterHash(r)
        \/ DebugRegisterInsert(r)
        \/ Retire(r)
    \/ \E h \in FrameHeaders : CheckAuth(h)

SpecFrame == InitServer /\ [][NextFrame]_vars

\* src/unnamed/part_001: accounts are registered and logged into as time
\* passes
Part001RegisterBodies ==
    { Body(Str(bob), Str(secret1)), Body(Str(alice), Str(other12)),
      Body(Undefined, Str(secret1)), Body(Str(bob), Num(n123456)) }

Part001LoginBodies ==
    { Body(Str(bob), Str(secret1)), Body(Str(bob), Str(other12)),
      Body(Undefined, Str(secret1)), Body(Str(bob), Undefined) }

InitPart001 ==
    /\ app = "part_001"
    /\ JWT_SECRET \in {"", EnvSecret}
    /\ users = <<>>
    /\ inUse = 0
    /\ reqs = [r \in Reqs |-> Idle]
    /\ clock = 0
    /\ saved = NoSaved
    /\ auth = NoAuth

NextPart001 ==
    \/ \E r \in Reqs :
        \/ \E body \in Part001RegisterBodies : Part001RegisterStart(r, body)
        \/ Part001RegisterCheck(r)
        \/ Part001RegisterHash(r)
        \/ Part001RegisterInsert(r)
        \/ \E body \in Part001LoginBodies : Part001LoginStart(r, body)
        \/ Part001LoginFind(r)
        \/ Part001LoginCompare(r)
        \/ Retire(r)
    \/ Tick

SpecPart001 == InitPart001 /\ [][NextPart001]_vars

\* src/server.js: the three endpoints that issue tokens, and check-auth
NextTokens ==
    \/ \E r \in Reqs :
        \/ \E body \in SessionBodies : Alone(r) /\ RegisterStart(r, body)
        \/ RegisterGetConnection(r)
        \/ RegisterCheck(r)
        \/ RegisterHash(r)
        \/ RegisterInsert(r)
        \/ \E body \in SessionBodies : Alone(r) /\ LoginStart(r, body)
        \/ LoginGetConnection(r)
        \/ LoginFind(r)
        \/ LoginCompare(r)
        \/ \E body \in FrameDebugBodies : Alone(r) /\ DebugRegisterStart(r, body)
        \/ DebugRegisterGetConnection(r)
        \/ DebugRegisterCheck(r)
        \/ DebugRegisterHash(r)
        \/ DebugRegisterInsert(r)
        \/ KeepToken(r)
        \/ Retire(r)
    \/ \E h \in AuthHeaders : CheckAuth(h)
    \/ Tick

SpecTokens == InitServer /\ [][NextTokens]_vars

----------------------------------------------------------------------------
(* Vocabulary of the properties *)

Done(r) == reqs[r].pc = "done"

\* the request's input passes the validation of POST /api/register
ValidRegistration(q) ==
    /\ IsString(q.username) /\ IsString(q.password)
    /\ validateUsername(q.username) = Null
    /\ validatePassword(q.password) = Null

\* the store failed under the request (connection refused, query lost)
StoreFault(q) == q.err \in {ConnectError, QueryError}

\* the DuplicateUsername outcome of POST /api/register
DuplicateUsername(resp) ==
    /\ resp.status = 400
    /\ resp.error \in {DuplicatePrecheckMessage, DuplicateInsertMessage}

Rows == {users[i] : i \in 1..Len(users)}

----------------------------------------------------------------------------
(* C1: after any interleaving of POST /api/register and POST              *)
(* /api/debug-register requests, no two rows of the users table have the   *)
(* same username.                                                          *)
C1_UniqueUsernames ==
    \A i, j \in 1..Len(users) :
        i # j => users[i].username # users[j].username

\* a debug-register passed its pre-check, lost the race to a registration of
\* the same username, and the unique index refused its insert
C1_Witness ==
    /\ Len(users) >= 1
    /\ \E r \in Reqs :
           /\ Done(r) /\ reqs[r].kind = "debug" /\ reqs[r].err = "ER_DUP_ENTRY"
           /\ \E o \in Reqs : reqs[o].kind = "register" /\ reqs[o].insertId > 0

(* C2: two POST /api/register requests for the same valid username, both   *)
(* arrived while the username was unused and neither hit by a store        *)
(* failure: exactly one is answered 201 and the other DuplicateUsername    *)
(* (400); if a third request created the row, both are DuplicateUsername.  *)
C2_ConcurrentRegister ==
    \A r1, r2 \in Reqs :
        LET q1 == reqs[r1]
            q2 == reqs[r2]
        IN  ( /\ r1 # r2
              /\ Done(r1) /\ Done(r2)
              /\ q1.kind = "register" /\ q2.kind = "register"
              /\ ValidRegistration(q1) /\ ValidRegistration(q2)
              /\ q1.username = q2.username
              /\ q1.row0 = NoRow /\ q2.row0 = NoRow
              /\ ~StoreFault(q1) /\ ~StoreFault(q2) )
            => LET rows == SelectByUsername(users, q1.username.v)
               IN  /\ Len(rows) = 1
                   /\ IF rows[1].id \in {q1.insertId, q2.insertId}
                      THEN \/ q1.resp.status = 201 /\ DuplicateUsername(q2.resp)
                           \/ q2.resp.status = 201 /\ DuplicateUsername(q1.resp)
                      ELSE DuplicateUsername(q1.resp) /\ DuplicateUsername(q2.resp)

\* both passed the pre-check, one inserted, the other's insert was refused
C2_Witness ==
    \E r1, r2 \in Reqs :
        /\ r1 # r2 /\ Done(r1) /\ Done(r2)
        /\ reqs[r1].kind = "register" /\ reqs[r2].kind = "register"
        /\ reqs[r1].username = reqs[r2].username
        /\ reqs[r1].row0 = NoRow /\ reqs[r2].row0 = NoRow
        /\ reqs[r1].resp.status = 201
        /\ reqs[r2].err = "ER_DUP_ENTRY" /\ reqs[r2].resp.status = 400

(* C3: a POST /api/register for a username that a completed registration   *)
(* already created is answered DuplicateUsername (400, by the pre-check),   *)
(* whatever the valid password, and the existing row is still in the table. *)
C3_SequentialDuplicate ==
    \A r \in Reqs :
        LET q == reqs[r]
        IN  ( /\ Done(r) /\ q.kind = "register"
              /\ ValidRegistration(q)
              /\ q.row0 # NoRow /\ q.row0.username = q.username.v
              /\ ~StoreFault(q) )
            => /\ q.resp = Failure(400, DuplicatePrecheckMessage)
               /\ q.insertId = 0
               /\ q.row0 \in Rows
               /\ SelectByUsername(users, q.username.v) = <<q.row0>>

\* the second registration used another valid password than the first
C3_Witness ==
    \E r \in Reqs :
        /\ Done(r) /\ reqs[r].kind = "register"
        /\ reqs[r].row0 # NoRow /\ reqs[r].row0.username = reqs[r].username.v
        /\ reqs[r].password = Str(other12)
        /\ reqs[r].row0.password.of = secret1
        /\ reqs[r].resp.status = 400

(* C4: for every valid (username, password) whose username no row holds,   *)
(* POST /api/register answers 201; and POST /api/login with the pair of a   *)
(* registered account answers 200 with a token whose userId and username    *)
(* are those of the account.                                                *)
C4_RegisterThenLogin ==
    \A r \in Reqs :
        LET q == reqs[r]
        IN  /\ ( /\ Done(r) /\ q.kind = "register"
                 /\ ValidRegistration(q) /\ ~StoreFault(q)
                 /\ q.resp.status # 201 )
               => \E row \in Rows : row.username = q.username.v
            /\ ( /\ Done(r) /\ q.kind = "register" /\ q.resp.status = 201 )
               => /\ q.resp.user.id = q.insertId
                  /\ q.resp.user.username = q.username.v
            /\ ( /\ Done(r) /\ q.kind = "login"
                 /\ IsString(q.username) /\ IsString(q.password)
                 /\ ~StoreFault(q)
                 /\ q.row0 # NoRow /\ q.row0.username = q.username.v
                 /\ bcryptCompare(q.password, q.row0.password) )
               => /\ q.resp.status = 200
                  /\ q.resp.token.userId = q.row0.id
                  /\ q.resp.token.username = q.row0.username

(* C5: in both revisions, POST /api/login for a username without a row and  *)
(* POST /api/login for an existing username with a wrong password get the   *)
(* same response, with status 401.                                          *)
UnknownUserCase(q) ==
    /\ q.kind = "login" /\ q.pc = "done" /\ q.err = "none"
    /\ q.queries = 1 /\ q.user = NoRow

WrongPasswordCase(q) ==
    /\ q.kind = "login" /\ q.pc = "done" /\ q.err = "none"
    /\ q.user # NoRow /\ IsString(q.password)
    /\ ~bcryptCompare(q.password, q.user.password)

C5_LoginFailuresIdentical ==
    /\ \A r \in Reqs :
           UnknownUserCase(reqs[r]) \/ WrongPasswordCase(reqs[r])
               => reqs[r].resp.status = 401
    /\ \A r1, r2 \in Reqs :
           UnknownUserCase(reqs[r1]) /\ WrongPasswordCase(reqs[r2])
               => reqs[r1].resp = reqs[r2].resp

\* both failures have been answered, in the revision src/backend/server.js
C5_Witness ==
    \E r1, r2 \in Reqs :
        /\ app = "backend"
        /\ UnknownUserCase(reqs[r1]) /\ WrongPasswordCase(reqs[r2])

(* C6: GET /api/check-auth always answers with status 200; without a        *)
(* header, without the 'Bearer ' prefix, or with a token that is malformed, *)
(* wrongly signed or expired, the body says isLoggedIn false.               *)
UnusableHeader(h, now) ==
    \/ HeaderMissing(h)
    \/ ~StartsWithBearer(h)
    \/ ~h.parts[1].wf
    \/ h.parts[1].key # SecretOr(FallbackSecret)
    \/ now >= h.parts[1].exp

C6_CheckAuthNeverFails ==
    auth.asked =>
        /\ auth.reply.status = 200
        /\ UnusableHeader(auth.header, auth.at) => ~auth.reply.isLoggedIn

\* a wrongly signed token has been presented
C6_Witness ==
    /\ auth.asked
    /\ StartsWithBearer(auth.header)
    /\ auth.header.parts[1].wf
    /\ auth.header.parts[1].key = "attacker-key"
    /\ ~auth.reply.isLoggedIn

(* C7: a token issued by POST /api/register or POST /api/login is accepted  *)
(* by GET /api/check-auth, with the id and username of its account, at      *)
(* every time before 7 days after issuance, and answered isLoggedIn false   *)
(* from then on, though its signature is still valid.                       *)
C7_TokenLifetime ==
    ( /\ auth.asked
      /\ saved.by \in {"register", "login"}
      /\ auth.header = Header("Bearer", <<saved.token>>) )
    => IF auth.at < saved.token.iat + ExpiresInDays * SecondsPerDay
       THEN /\ auth.reply.isLoggedIn
            /\ auth.reply.user = saved.user
            /\ \E row \in Rows :
                   /\ row.id = auth.reply.user.id
                   /\ row.username = auth.reply.user.username
       ELSE /\ ~auth.reply.isLoggedIn
            /\ saved.token.key = SecretOr(FallbackSecret)

\* a token from a login was accepted one second before its seventh day ended
C7_Witness ==
    /\ auth.asked
    /\ saved.by = "login"
    /\ auth.header = Header("Bearer", <<saved.token>>)
    /\ auth.at = saved.token.iat + ExpiresInDays * SecondsPerDay - 1
    /\ auth.reply.isLoggedIn

(* C8 as stated: POST /api/register with string fields is rejected as       *)
(* InvalidInput exactly when the username is shorter than 3 or longer than  *)
(* 50 characters, or has a character outside letters, digits and            *)
(* underscore, or the password is shorter than 6 characters.                *)
ValidationMessages ==
    { "Username must be at least 3 characters long",
      "Username must be less than 50 characters",
      "Username can only contain letters, numbers, and underscores",
      "Password must be at least 6 characters long",
      "Password is too long" }

InvalidInput(resp) == resp.status = 400 /\ resp.error \in ValidationMessages

UsernameRuleBroken(u) ==
    \/ Len(u) < 3
    \/ Len(u) > 50
    \/ \E i \in 1..Len(u) : u[i] \notin WordChars

C8_ValidationAsStated ==
    \A r \in Reqs :
        LET q == reqs[r]
        IN  ( /\ q.kind = "register" /\ q.pc # "idle"
              /\ IsString(q.username) /\ IsString(q.password)
              /\ app = "server" )
            => ( InvalidInput(q.resp)
                   <=> (UsernameRuleBroken(q.username.v) \/ Len(q.password.v) < 6) )

(* C8, amended: ... or the password is shorter than 6 or longer than 100    *)
(* characters.                                                              *)
C8_Validation ==
    \A r \in Reqs :
        LET q == reqs[r]
        IN  ( /\ q.kind = "register" /\ q.pc # "idle"
              /\ IsString(q.username) /\ IsString(q.password)
              /\ app = "server" )
            => ( InvalidInput(q.resp)
                   <=> ( \/ UsernameRuleBroken(q.username.v)
                         \/ Len(q.password.v) < 6
                         \/ Len(q.password.v) > 100 ) )

\* a username of 50 characters was let through with a password of 100, and
\* the same username was rejected with a password of 101
C8_Witness ==
    \E r \in Reqs :
        /\ reqs[r].kind = "register" /\ reqs[r].pc = "done"
        /\ Len(reqs[r].username.v) = 50 /\ Len(reqs[r].password.v) = 101
        /\ reqs[r].resp = Failure(400, "Password is too long")

(* C9: a POST /api/register or POST /api/login whose username or password   *)
(* is absent or not a string is answered InvalidInput (400) before any      *)
(* store query or password hashing, and never with 500.                     *)
C9_NonStringRejectedEarly ==
    \A r \in Reqs :
        LET q == reqs[r]
        IN  ( /\ app = "server"
              /\ q.kind \in {"register", "login"} /\ q.pc # "idle"
              /\ (~IsString(q.username) \/ ~IsString(q.password)) )
            => /\ q.queries = 0 /\ q.hashes = 0
               /\ q.pc = "done"
               /\ q.resp.status = 400

(* C10: in src/backend/server.js a POST /api/register that is not answered  *)
(* 201 has added no row to the users table, whether JWT_SECRET is set or    *)
(* not.                                                                     *)
C10_RegisterAllOrNothing ==
    \A r \in Reqs :
        LET q == reqs[r]
        IN  ( /\ app = "backend"
              /\ q.kind = "register" /\ q.pc = "done"
              /\ q.resp.status # 201 )
            => q.insertId = 0

(* C11: in src/server.js every row of the users table has a username of    *)
(* 3 to 50 characters made of letters, digits and underscores only,         *)
(* whichever endpoint (register or debug-register) created the row.         *)
C11_StoredUsernamesValid ==
    app = "server" =>
        \A i \in 1..Len(users) :
            /\ Len(users[i].username) >= UsernameMinLen
            /\ Len(users[i].username) <= UsernameMaxLen
            /\ MatchesWord(users[i].username)

(* C12: in src/server.js, whatever requests run concurrently and whichever  *)
(* store queries fail, every POST /api/register and POST /api/login that    *)
(* has arrived is eventually answered, provided every store operation       *)
(* completes or errors.                                                     *)
C12_EveryRequestAnswered ==
    \A r \in Reqs :
        (reqs[r].kind \in {"register", "login"} /\ reqs[r].pc # "idle")
            ~> (reqs[r].pc = "done")

(* C16: in src/server.js, once every request to register, login,           *)
(* debug-register, health, test-db and users has finished, no connection    *)
(* is held out of the pool.                                                 *)
C16_ConnectionsReleased ==
    (\A r \in Reqs : reqs[r].pc \in {"idle", "done"}) => inUse = 0

(* C13: in src/backend/server.js a POST /api/register whose insert the     *)
(* unique index refuses (a concurrent registration of the same username     *)
(* got in between its pre-check and its insert) is answered like one the    *)
(* pre-check refuses: 400, DuplicateUsername.                               *)
C13_BackendDuplicateInsert ==
    \A r \in Reqs :
        LET q == reqs[r]
        IN  ( /\ app = "backend"
              /\ q.kind = "register" /\ q.pc = "done"
              /\ q.err = "ER_DUP_ENTRY" )
            => q.resp = Failure(400, "Username already taken")

(* C14: in src/server.js the users table changes only in the step in which  *)
(* the insert of a registration (register or debug-register) succeeds, and  *)
(* then exactly one row is added behind the rows there were; login,         *)
(* check-auth and every rejected register leave the table as it was, and no *)
(* row is ever modified or removed.                                         *)
C14_TableFrame ==
    [][ /\ Len(users') \in {Len(users), Len(users) + 1}
        /\ SubSeq(users', 1, Len(users)) = users
        /\ users' # users =>
               \E r \in Reqs :
                   /\ reqs[r].kind \in {"register", "debug"}
                   /\ reqs[r].pc = "insert"
                   /\ reqs'[r].pc = "done"
                   /\ reqs'[r].resp.status \in {200, 201}
                   /\ reqs'[r].insertId = users'[Len(users')].id
                   /\ \A o \in Reqs \ {r} : reqs'[o] = reqs[o]
      ]_vars

\* two rows exist, a login has been answered, a register has been refused as
\* a duplicate and check-auth has been asked
C14_Witness ==
    /\ Len(users) = 2
    /\ auth.asked
    /\ \E r, o \in Reqs :
           /\ reqs[r].kind = "login" /\ reqs[r].pc = "done"
           /\ reqs[o].kind = "register" /\ reqs[o].pc = "done"
           /\ DuplicateUsername(reqs[o].resp)

(* C15: in src/unnamed/part_001 the token POST /api/login issues for an     *)
(* account carries the same claims as the token POST /api/register issued   *)
(* for it (userId and username, with the same values) and is valid for the  *)
(* same length of time.                                                     *)
C15_SameClaimsAndWindow ==
    \A r, o \in Reqs :
        LET reg == reqs[r]
            log == reqs[o]
        IN  ( /\ app = "part_001"
              /\ reg.kind = "register" /\ reg.pc = "done" /\ reg.resp.status = 201
              /\ log.kind = "login" /\ log.pc = "done" /\ log.resp.status = 200
              /\ log.resp.user.id = reg.resp.user.id )
            => /\ DOMAIN log.resp.token.payload = {"userId", "username"}
               /\ log.resp.token.payload = reg.resp.token.payload
               /\ log.resp.token.exp - log.resp.token.iat
                      = reg.resp.token.exp - reg.resp.token.iat

(* C17: in src/server.js a token issued by register, login or              *)
(* debug-register and not yet expired is answered by check-auth with        *)
(* isLoggedIn true, whether JWT_SECRET is set or the fallback is used.      *)
C17_IssuedTokensAccepted ==
    ( /\ auth.asked
      /\ saved.by \in {"register", "login", "debug"}
      /\ auth.header = Header("Bearer", <<saved.token>>)
      /\ auth.at < saved.token.exp )
    => auth.reply.isLoggedIn

====
